---------------------------- MODULE Spec2Model ----------------------------
(***************************************************************************)
(* Model of package reuse (portmapping/go-reuse): the socket-option        *)
(* controller Control, the address-resolution dispatcher ResolveAddr and   *)
(* the Listen / Dial facade of interface.go.                               *)
(*                                                                         *)
(* The standard library and the kernel are the environment: every call    *)
(* into them (socket creation, bind, connect, SyscallConn, name            *)
(* resolution, the TLS handshake) is one step whose outcome is chosen      *)
(* nondeterministically among the outcomes that call can have.  The        *)
(* order of the steps of an entry point, what it does on each failure      *)
(* and what it returns are taken from the function bodies.                 *)
(***************************************************************************)
EXTENDS Integers, Sequences, FiniteSets, TLC

VARIABLES socks, call, hostReuse

vars == <<socks, call, hostReuse>>

-----------------------------------------------------------------------------
(* Bounds of the model *)

\* descriptors the process may hold at once (socket() fails beyond it)
MaxSockets == 2
\* longest time a blocking step may take, in clock ticks
MaxDelay == 2
\* largest timeout a caller passes to a timeout-bounded dial
MaxTimeout == 1

FDs == 1..MaxSockets

\* textual addresses ("host:port", a path, ...)
Addrs == {"A", "B"}
NoAddr == "-"

-----------------------------------------------------------------------------
(* Errors are chains: <<>> is nil, Head is the outermost message and Tail  *)
(* is what errors.Unwrap returns.                                          *)

NilErr == <<>>

\* the cause formatted with %v: the chain ends at the new message
WrapResolveOpaque(err) == <<"resolving local addr">>

\* fmt.Errorf("resolving local addr: %w", err)
WrapResolve(err) == <<"resolving local addr">> \o err

\* net.UnknownNetworkError(network): the error text is the offending tag
UnknownNetworkError(network) == <<"unknown network", network>>

-----------------------------------------------------------------------------
(* addr.go: the resolution dispatcher *)

Tags == {"ip", "ip4", "ip6", "tcp", "tcp4", "tcp6",
         "udp", "udp4", "udp6", "unix", "unixgram", "unixpacket"}

\* a net.Addr interface value: its dynamic type and the pointer it holds
NilAddr == [type |-> "nil", val |-> NoAddr]

\* the four strategies, each a call into package net.  ok is the outcome of
\* that call; on failure package net returns a nil pointer of its own
\* pointer type, which the strategy converts to net.Addr.
resolveIPAddr(network, address, ok) ==
    IF ok THEN [addr |-> [type |-> "IPAddr", val |-> address], err |-> NilErr]
          ELSE [addr |-> [type |-> "IPAddr", val |-> NoAddr],
                err |-> <<"resolve ip", address>>]

resolveTCPAddr(network, address, ok) ==
    IF ok THEN [addr |-> [type |-> "TCPAddr", val |-> address], err |-> NilErr]
          ELSE [addr |-> [type |-> "TCPAddr", val |-> NoAddr],
                err |-> <<"resolve tcp", address>>]

resolveUDPAddr(network, address, ok) ==
    IF ok THEN [addr |-> [type |-> "UDPAddr", val |-> address], err |-> NilErr]
          ELSE [addr |-> [type |-> "UDPAddr", val |-> NoAddr],
                err |-> <<"resolve udp", address>>]

resolveUnixAddr(network, address, ok) ==
    IF ok THEN [addr |-> [type |-> "UnixAddr", val |-> address], err |-> NilErr]
          ELSE [addr |-> [type |-> "UnixAddr", val |-> NoAddr],
                err |-> <<"resolve unix", address>>]

Strategies == {"resolveIPAddr", "resolveTCPAddr", "resolveUDPAddr", "resolveUnixAddr"}

ApplyStrategy(s, network, address, ok) ==
    CASE s = "resolveIPAddr"   -> resolveIPAddr(network, address, ok)
      [] s = "resolveTCPAddr"  -> resolveTCPAddr(network, address, ok)
      [] s = "resolveUDPAddr"  -> resolveUDPAddr(network, address, ok)
      [] s = "resolveUnixAddr" -> resolveUnixAddr(network, address, ok)

addrMappingUDPasTCP ==
    [t \in Tags |->
        CASE t \in {"ip", "ip4", "ip6"}                -> "resolveIPAddr"
          [] t \in {"tcp", "tcp4", "tcp6"}             -> "resolveTCPAddr"
          [] t \in {"udp", "udp4", "udp6"}             -> "resolveTCPAddr"
          [] t \in {"unix", "unixgram", "unixpacket"}  -> "resolveUnixAddr"]

addrMapping ==
    [t \in Tags |->
        CASE t \in {"ip", "ip4", "ip6"}                -> "resolveIPAddr"
          [] t \in {"tcp", "tcp4", "tcp6"}             -> "resolveTCPAddr"
          [] t \in {"udp", "udp4", "udp6"}             -> "resolveUDPAddr"
          [] t \in {"unix", "unixgram", "unixpacket"}  -> "resolveUnixAddr"]

\* ResolveAddr: the result, and the strategy that was called ("none" when
\* the tag is not a key of addrMapping)
ResolveAddr(network, address, ok) ==
    IF network \in DOMAIN addrMapping
    THEN LET r == ApplyStrategy(addrMapping[network], network, address, ok)
         IN  [addr |-> r.addr, err |-> r.err, called |-> addrMapping[network]]
    ELSE [addr |-> NilAddr, err |-> UnknownNetworkError(network), called |-> "none"]

-----------------------------------------------------------------------------
(* control_windows.go: the socket-option controller *)

\* The descriptor callback assigning to the err that the if statement
\* declares instead of the named result: the option-set error is lost.
ControlShadowed(rawOk, setOk) ==
    IF rawOk
    THEN [err |-> NilErr, attempted |-> TRUE, optset |-> setOk]
    ELSE [err |-> <<"raw conn">>, attempted |-> FALSE, optset |-> FALSE]

\* Control(network, address, c).  rawOk: c.Control reaches the descriptor
\* and runs the callback; setOk: SetsockoptInt(SO_REUSEADDR, 1) succeeds.
\* The callback is part of the right-hand side of "err := c.Control(...)",
\* where the new err is not yet in scope, so it assigns the named result;
\* the bare return hands that named result back.
Control(rawOk, setOk) ==
    LET named == IF rawOk /\ ~setOk THEN <<"setsockopt">> ELSE NilErr
        inner == IF rawOk THEN NilErr ELSE <<"raw conn">>
    IN  IF inner # NilErr
        THEN [err |-> inner, attempted |-> FALSE, optset |-> FALSE]
        ELSE [err |-> named, attempted |-> TRUE, optset |-> setOk]

NoCtl == [rawOk |-> FALSE, setOk |-> FALSE, err |-> NilErr,
          attempted |-> FALSE, optset |-> FALSE, ran |-> FALSE]

-----------------------------------------------------------------------------
(* interface.go: the facade *)

\* Enabled is initialised to false and assigned nowhere
Enabled == FALSE

ListenEPs == {"Listen", "ListenTLS", "ListenPacket"}
TypedListenEPs == {"ListenTCP", "ListenIP", "ListenUnix"}
ResolvingDialEPs == {"Dial", "DialTimeOut", "DialTLS"}
TypedDialEPs == {"DialTCP", "DialAddr", "DialIP", "DialUDP", "DialTimeoutUDP", "DialUnix"}
DialEPs == ResolvingDialEPs \cup TypedDialEPs
TimedEPs == {"DialTimeOut", "DialTimeoutUDP"}
EntryPoints == ListenEPs \cup TypedListenEPs \cup DialEPs

\* the family tags a caller passes: the twelve of addrMapping and one that
\* is no family
CallNetworks == Tags \cup {"bogus"}

\* the dynamic type of the local address a typed entry point is handed
TypedAddrType(ep) ==
    CASE ep \in {"ListenTCP", "DialTCP", "DialAddr"} -> "TCPAddr"
      [] ep \in {"ListenIP", "DialIP"}               -> "IPAddr"
      [] ep \in {"DialUDP", "DialTimeoutUDP"}        -> "UDPAddr"
      [] ep \in {"ListenUnix", "DialUnix"}           -> "UnixAddr"
      [] OTHER                                       -> "nil"

\* Resolution moved into the dialer: the descriptor exists before the local
\* address is resolved.
StepsResolveLate(ep) ==
    CASE ep \in ListenEPs        -> <<"socket", "control", "bind">>
      [] ep \in TypedListenEPs   -> <<"socket", "bind", "syscallconn", "control">>
      [] ep = "DialTLS"          -> <<"socket", "resolve", "control", "bind", "connect", "handshake">>
      [] ep \in ResolvingDialEPs -> <<"socket", "resolve", "control", "bind", "connect">>
      [] OTHER                   -> <<"socket", "control", "bind", "connect">>

\* The calls an entry point makes, in the order of its body.
\*   listenConfig.Listen / ListenPacket and net.Dialer.Dial: the creation path
\*     of package net makes the descriptor, runs the Control hook on it, then
\*     binds (and, dialing, connects);
\*   net.ListenTCP / ListenIP / ListenUnix: package net makes and binds the
\*     descriptor with no hook; the body then calls SyscallConn and Control;
\*   Dial, DialTimeOut, DialTLS: ResolveAddr first.
Steps(ep) ==
    CASE ep \in ListenEPs        -> <<"socket", "control", "bind">>
      [] ep \in TypedListenEPs   -> <<"socket", "bind", "syscallconn", "control">>
      [] ep = "DialTLS"          -> <<"resolve", "socket", "control", "bind", "connect", "handshake">>
      [] ep \in ResolvingDialEPs -> <<"resolve", "socket", "control", "bind", "connect">>
      [] OTHER                   -> <<"socket", "control", "bind", "connect">>

\* An error of any step returned as success.
OnFailSwallow(ep, step) == [keep |-> TRUE, ret |-> TRUE, err |-> FALSE]

\* What a failing step leaves behind: keep, the descriptor stays open;
\* ret, the listener or connection is returned beside the error; err, the
\* error reaches the caller.
\*   inside package net (and tls.DialWithDialer) a failure closes the
\*     descriptor and nil is returned;
\*   "return nil, err" after SyscallConn fails: the bound listener is dropped
\*     without Close;
\*   "return t, err" after Control fails: the bound listener is returned.
OnFail(ep, step) ==
    CASE ep \in TypedListenEPs /\ step = "syscallconn" -> [keep |-> TRUE,  ret |-> FALSE, err |-> TRUE]
      [] ep \in TypedListenEPs /\ step = "control"     -> [keep |-> TRUE,  ret |-> TRUE,  err |-> TRUE]
      [] OTHER                                         -> [keep |-> FALSE, ret |-> FALSE, err |-> TRUE]

\* what a successful call returns
RetKind(ep) == IF ep \in {"ListenTLS", "DialTLS"} THEN "tls" ELSE "sock"

-----------------------------------------------------------------------------
(* State *)

\* a slot of the kernel's socket table.  st: "free"; "creating" while the
\* call that made it runs; "ok" once returned with a nil error; "witherr"
\* returned beside an error; "leaked" open with no handle returned.
\* lis: made by a listen entry point.
Free == [st |-> "free", reuse |-> FALSE, bound |-> NoAddr, lis |-> FALSE]

\* no ResolveAddr result yet
NoRes == [addr |-> NilAddr, err |-> NilErr, called |-> "-"]

IdleCall ==
    [phase |-> "idle", ep |-> "-", network |-> "-", laddr |-> NoAddr,
     raddr |-> NoAddr, timeout |-> 0, pc |-> 0, fd |-> 0, nla |-> NilAddr,
     ret |-> "nil", err |-> NilErr, failedAt |-> "-", nres |-> 0,
     ncreate |-> 0, elapsed |-> 0, deadline |-> 0, ctl |-> NoCtl,
     res |-> NoRes]

Init ==
    /\ socks = [fd \in FDs |-> Free]
    /\ call = IdleCall
    /\ hostReuse \in BOOLEAN

Running(step) ==
    /\ call.phase = "run"
    /\ call.pc \in 1..Len(Steps(call.ep))
    /\ Steps(call.ep)[call.pc] = step

OpenFDs(s) == {fd \in FDs : s[fd].st # "free"}

\* the step succeeded: go on to the next one, or return the result
Succeed(c, s) ==
    IF c.pc < Len(Steps(c.ep))
    THEN /\ call' = [c EXCEPT !.pc = @ + 1]
         /\ socks' = s
    ELSE /\ call' = [c EXCEPT !.phase = "done", !.ret = RetKind(c.ep)]
         /\ socks' = [s EXCEPT ![c.fd].st = "ok"]

\* the step failed with error e: the call returns
Fail(c, s, step, e) ==
    LET f == OnFail(c.ep, step)
    IN  /\ call' = [c EXCEPT !.phase = "done",
                             !.failedAt = step,
                             !.ret = IF f.ret THEN RetKind(c.ep) ELSE "nil",
                             !.err = IF f.err THEN e ELSE NilErr]
        /\ socks' = IF c.fd = 0 THEN s
                    ELSE IF ~f.keep THEN [s EXCEPT ![c.fd] = Free]
                    ELSE [s EXCEPT ![c.fd].st =
                             IF ~f.ret THEN "leaked"
                             ELSE IF f.err THEN "witherr" ELSE "ok"]

\* the kernel's bind rule: an address held by another open socket is free
\* to bind only on a host that honors port reuse, and only if both sockets
\* carry the reuse option
CanBind(s, fd, addr) ==
    \A g \in FDs \ {fd} :
        (s[g].st # "free" /\ s[g].bound = addr)
            => (hostReuse /\ s[fd].reuse /\ s[g].reuse)

\* "can't dial self because tcp/ip stacks use 4-tuples to identify
\* connections, and doing so would clash"
FourTupleClash(local, remote) == local = remote

-----------------------------------------------------------------------------
(* Actions *)

\* a caller enters one of the entry points
Call(ep, network, laddr, raddr, timeout) ==
    /\ call.phase = "idle"
    /\ call' = [IdleCall EXCEPT
                   !.phase = "run", !.ep = ep, !.network = network,
                   !.laddr = laddr, !.raddr = raddr, !.timeout = timeout,
                   !.pc = 1,
                   !.nla = IF ep \in TypedDialEPs
                           THEN [type |-> TypedAddrType(ep), val |-> laddr]
                           ELSE NilAddr]
    /\ UNCHANGED <<socks, hostReuse>>

\* nla, err := ResolveAddr(network, laddr), which may block for d ticks
ResolveStep(ok, d) ==
    /\ Running("resolve")
    /\ LET r == ResolveAddr(call.network, call.laddr, ok)
           c == [call EXCEPT !.nres = @ + 1,
                             !.res = r,
                             !.nla = r.addr,
                             !.elapsed = IF call.timeout > 0 THEN @ + d ELSE @]
       IN  IF r.err # NilErr
           THEN Fail(c, socks, "resolve", WrapResolve(r.err))
           ELSE Succeed(c, socks)
    /\ UNCHANGED hostReuse

\* package net creates the descriptor (the dialer's deadline starts here)
SocketStep ==
    /\ Running("socket")
    /\ LET c == [call EXCEPT !.ncreate = @ + 1,
                             !.deadline = call.elapsed + call.timeout]
           free == FDs \ OpenFDs(socks)
       IN  IF call.network \notin Tags
           THEN Fail(c, socks, "socket", UnknownNetworkError(call.network))
           ELSE IF free = {}
           THEN Fail(c, socks, "socket", <<"socket: too many open files">>)
           ELSE LET fd == CHOOSE f \in free : \A g \in free : f <= g
                IN  Succeed([c EXCEPT !.fd = fd],
                            [socks EXCEPT ![fd] = [st |-> "creating",
                                                   reuse |-> FALSE,
                                                   bound |-> NoAddr,
                                                   lis |-> call.ep \notin DialEPs]])
    /\ UNCHANGED hostReuse

\* Control runs on the descriptor: as the creation hook of listenConfig and
\* of the dialers, or called by ListenTCP / ListenIP / ListenUnix
ControlStep(rawOk, setOk) ==
    /\ Running("control")
    /\ LET r == Control(rawOk, setOk)
           c == [call EXCEPT !.ctl = [rawOk |-> rawOk, setOk |-> setOk,
                                      err |-> r.err, attempted |-> r.attempted,
                                      optset |-> r.optset, ran |-> TRUE]]
           s == [socks EXCEPT ![call.fd].reuse = r.optset]
       IN  IF r.err # NilErr
           THEN Fail(c, s, "control", r.err)
           ELSE Succeed(c, s)
    /\ UNCHANGED hostReuse

\* package net binds the descriptor to the local address
BindStep ==
    /\ Running("bind")
    /\ LET addr == IF call.ep \in DialEPs THEN call.nla.val ELSE call.laddr
       IN  IF CanBind(socks, call.fd, addr)
           THEN Succeed(call, [socks EXCEPT ![call.fd].bound = addr])
           ELSE Fail(call, socks, "bind", <<"bind: address already in use">>)
    /\ UNCHANGED hostReuse

\* conn, err := t.SyscallConn()
SyscallConnStep(ok) ==
    /\ Running("syscallconn")
    /\ IF ok THEN Succeed(call, socks)
             ELSE Fail(call, socks, "syscallconn", <<"syscallconn: invalid argument">>)
    /\ UNCHANGED hostReuse

\* package net connects the descriptor; the peer answers after d ticks,
\* refuses after d ticks, or never answers
ConnectStep(out, d) ==
    /\ Running("connect")
    /\ LET left == call.deadline - call.elapsed
           timed == call.timeout > 0
       IN  IF FourTupleClash(socks[call.fd].bound, call.raddr)
           THEN Fail(call, socks, "connect", <<"connect: four-tuple in use">>)
           ELSE IF timed /\ (out = "unreachable" \/ d > left)
           THEN Fail([call EXCEPT !.elapsed = call.deadline], socks,
                     "connect", <<"dial: i/o timeout">>)
           ELSE LET c == [call EXCEPT !.elapsed = IF timed THEN @ + d ELSE @]
                IN  CASE out = "ok"          -> Succeed(c, socks)
                      [] out = "refused"     -> Fail(c, socks, "connect", <<"connect: connection refused">>)
                      [] out = "unreachable" -> Fail(c, socks, "connect", <<"connect: connection timed out">>)
    /\ UNCHANGED hostReuse

\* tls.DialWithDialer: the handshake over the established connection
HandshakeStep(ok) ==
    /\ Running("handshake")
    /\ IF ok THEN Succeed(call, socks)
             ELSE Fail(call, socks, "handshake", <<"tls: handshake failure">>)
    /\ UNCHANGED hostReuse

\* the caller takes the result
Return ==
    /\ call.phase = "done"
    /\ call' = IdleCall
    /\ UNCHANGED <<socks, hostReuse>>

\* the caller closes a listener or connection it was handed
Close(fd) ==
    /\ call.phase = "idle"
    /\ socks[fd].st \in {"ok", "witherr"}
    /\ socks' = [socks EXCEPT ![fd] = Free]
    /\ UNCHANGED <<call, hostReuse>>

\* the tags a caller passes to an entry point: any string to the ones that
\* take textual addresses, and to the ones that take a typed address the
\* tags of that address's family or a tag that is no family
Networks(ep) ==
    IF ep \in ListenEPs \cup ResolvingDialEPs
    THEN CallNetworks
    ELSE {t \in Tags : ApplyStrategy(addrMapping[t], t, NoAddr, TRUE).addr.type
                           = TypedAddrType(ep)} \cup {"bogus"}

Timeouts(ep) == IF ep \in TimedEPs THEN 1..MaxTimeout ELSE {0}
Remotes(ep) == IF ep \in DialEPs THEN Addrs ELSE {NoAddr}

Next ==
    \/ \E ep \in EntryPoints, laddr \in Addrs :
         \E network \in Networks(ep), raddr \in Remotes(ep), timeout \in Timeouts(ep) :
            Call(ep, network, laddr, raddr, timeout)
    \/ \E ok \in BOOLEAN, d \in 0..MaxDelay : ResolveStep(ok, d)
    \/ SocketStep
    \/ \E rawOk \in BOOLEAN, setOk \in BOOLEAN : ControlStep(rawOk, setOk)
    \/ BindStep
    \/ \E ok \in BOOLEAN : SyscallConnStep(ok)
    \/ \E out \in {"ok", "refused", "unreachable"}, d \in 0..MaxDelay : ConnectStep(out, d)
    \/ \E ok \in BOOLEAN : HandshakeStep(ok)
    \/ Return
    \/ \E fd \in FDs : Close(fd)

Spec == Init /\ [][Next]_vars

-----------------------------------------------------------------------------
(* Properties *)

Done == call.phase = "done"
Active == call.phase \in {"run", "done"}

\* C1: in every listen and dial entry point a socket is bound only after
\* Control has applied the reuse option to it: no socket of this layer is
\* ever bound without carrying the option.
C1_ControlBeforeBind ==
    \A fd \in FDs :
        (socks[fd].st # "free" /\ socks[fd].bound # NoAddr) => socks[fd].reuse

\* C2: whenever Control returned an error during a call, the call returns an
\* error and a nil listener or connection.
C2_ControlErrorAborts ==
    (Done /\ call.ctl.ran /\ call.ctl.err # NilErr)
        => (call.err # NilErr /\ call.ret = "nil")

\* C3: between calls the open sockets are exactly those returned by
\* successful calls and not yet closed; a failed call leaves none open.
C3_OpenEqualsOwned ==
    (call.phase \in {"idle", "done"})
        => OpenFDs(socks) = {fd \in FDs : socks[fd].st = "ok"}

\* C4: in Dial, DialTimeOut and DialTLS the one resolution of the local
\* address has finished with success before a descriptor is created, and a
\* call whose resolution failed returns an error and nil without having
\* created any descriptor.
C4_ResolveBeforeSocket ==
    (Active /\ call.ep \in ResolvingDialEPs) =>
        /\ (call.fd # 0 \/ call.ncreate > 0)
              => (call.nres = 1 /\ call.res.err = NilErr)
        /\ (call.nres = 1 /\ call.res.err # NilErr)
              => /\ Done /\ call.failedAt = "resolve"
                 /\ call.fd = 0 /\ call.ncreate = 0
                 /\ call.err # NilErr /\ call.ret = "nil"
                 /\ \A fd \in FDs : socks[fd].st # "creating"

C4_Witness ==
    /\ Done /\ call.ep = "DialTLS" /\ call.failedAt = "resolve"
    /\ call.network = "tcp" /\ call.fd = 0

\* the reference dispatch: the strategy and address type of a tag's group
RefGroup(tag) ==
    CASE tag \in {"ip", "ip4", "ip6"}               -> [s |-> "resolveIPAddr",   t |-> "IPAddr"]
      [] tag \in {"tcp", "tcp4", "tcp6"}            -> [s |-> "resolveTCPAddr",  t |-> "TCPAddr"]
      [] tag \in {"udp", "udp4", "udp6"}            -> [s |-> "resolveUDPAddr",  t |-> "UDPAddr"]
      [] tag \in {"unix", "unixgram", "unixpacket"} -> [s |-> "resolveUnixAddr", t |-> "UnixAddr"]
      [] OTHER                                      -> [s |-> "none",            t |-> "nil"]

\* C5: for every tag and address ResolveAddr returns what the reference
\* dispatch returns: for a supported tag the result of the group's strategy,
\* whose type is the group's and which holds an address exactly when the
\* error is nil; for any other tag a nil address, the unknown-network error
\* carrying the tag, and no strategy called.
C5_ResolveAddrDispatch ==
    (call.nres > 0) =>
        LET r == call.res
            g == RefGroup(call.network)
        IN  /\ r.called = g.s
            /\ r.addr.type = g.t
            /\ (r.err = NilErr) <=> (r.addr.val # NoAddr)
            /\ r.addr.val \in {NoAddr, call.laddr}
            /\ (g.s = "none") =>
                  /\ r.addr = NilAddr
                  /\ r.err = <<"unknown network", call.network>>
            /\ (g.s # "none" /\ r.err # NilErr) =>
                  r.err = ApplyStrategy(g.s, call.network, call.laddr, FALSE).err

C5_Witness ==
    /\ call.nres > 0 /\ call.network = "udp6"
    /\ call.res.err = NilErr /\ call.res.addr = [type |-> "UDPAddr", val |-> "B"]

\* C6: a Listen("tcp", A) made while an earlier listener on A is still open
\* succeeds exactly when Enabled is true, and otherwise fails at bind.
C6_EnabledPredictsSecondListen ==
    ( /\ Done /\ call.ep = "Listen" /\ call.network = "tcp"
      /\ call.failedAt \in {"-", "bind"}
      /\ \E g \in FDs \ {call.fd} :
            socks[g].st = "ok" /\ socks[g].lis /\ socks[g].bound = call.laddr )
        => ((call.err = NilErr) <=> Enabled)

\* C7: Dial("tcp", A, A) never succeeds, and this layer does not reject it
\* itself: the call goes through resolution, descriptor creation, Control
\* and bind like any dial, and when those succeed it fails at connect with
\* the kernel's four-tuple error.
C7_SelfDialFailsAtConnect ==
    (Done /\ call.ep = "Dial" /\ call.network = "tcp" /\ call.laddr = call.raddr) =>
        /\ call.err # NilErr /\ call.ret = "nil"
        /\ call.failedAt \in {"resolve", "socket", "control", "bind", "connect"}
        /\ call.nres = 1
        /\ (call.failedAt = "resolve") <=> (call.res.err # NilErr)
        /\ (call.failedAt = "control") <=> (call.ctl.ran /\ call.ctl.err # NilErr)
        /\ (call.failedAt = "connect") =>
              /\ call.err = <<"connect: four-tuple in use">>
              /\ call.ncreate = 1 /\ call.ctl.ran /\ call.ctl.optset

C7_Witness ==
    /\ Done /\ call.ep = "Dial" /\ call.network = "tcp"
    /\ call.laddr = "A" /\ call.raddr = "A"
    /\ call.failedAt = "connect" /\ call.err = <<"connect: four-tuple in use">>

\* C8: a timeout-bounded dial returns within its timeout, counted from the
\* start of the call.
C8_ReturnsWithinTimeout ==
    (Done /\ call.ep \in TimedEPs) => call.elapsed <= call.timeout

\* C9: a call resolves at most once and creates at most one socket; the
\* error of the step that failed is what the caller gets (a resolution
\* error wrapped with its cause as the rest of the chain, any other error
\* as it is), and the error is nil only if every step succeeded.
C9_NoRetryNoSwallow ==
    Active =>
        /\ call.nres <= 1 /\ call.ncreate <= 1
        /\ Done =>
            /\ (call.err = NilErr) <=> (call.failedAt = "-")
            /\ (call.err = NilErr) =>
                  /\ call.pc = Len(Steps(call.ep))
                  /\ call.ctl.ran /\ call.ctl.err = NilErr
                  /\ call.ncreate = 1 /\ call.fd # 0
                  /\ (call.ep \in ResolvingDialEPs)
                        => (call.nres = 1 /\ call.res.err = NilErr)
            /\ (call.failedAt = "resolve") =>
                  /\ call.res.err # NilErr
                  /\ Head(call.err) = "resolving local addr"
                  /\ Tail(call.err) = call.res.err
            /\ (call.failedAt = "control") => call.err = call.ctl.err
            /\ (call.failedAt \in {"socket", "bind", "connect", "syscallconn", "handshake"})
                  => (call.err # NilErr /\ Head(call.err) # "resolving local addr")
            /\ (call.res.err # NilErr) => call.failedAt = "resolve"
            /\ (call.ctl.err # NilErr) => call.failedAt = "control"

C9_Witness ==
    /\ Done /\ call.ep = "DialTimeOut" /\ call.network = "bogus"
    /\ call.err = <<"resolving local addr", "unknown network", "bogus">>

\* C10: an invocation of Control runs the option-set call on the descriptor
\* whenever the raw descriptor can be reached, and returns a non-nil error
\* exactly when reaching the descriptor failed or the option-set call
\* failed; the option-set error is the one returned when RawConn.Control
\* succeeds.
C10_ControlError ==
    call.ctl.ran =>
        /\ call.ctl.attempted <=> call.ctl.rawOk
        /\ (call.ctl.err # NilErr)
              <=> (~call.ctl.rawOk \/ (call.ctl.attempted /\ ~call.ctl.setOk))
        /\ (call.ctl.rawOk /\ ~call.ctl.setOk) => call.ctl.err = <<"setsockopt">>
        /\ ~call.ctl.rawOk => call.ctl.err = <<"raw conn">>
        /\ call.ctl.optset <=> (call.ctl.rawOk /\ call.ctl.setOk)

C10_Witness ==
    /\ call.ctl.ran /\ call.ctl.rawOk /\ ~call.ctl.setOk
    /\ call.ctl.err = <<"setsockopt">>

=============================================================================
